---- MODULE Spec2Model ----
(***************************************************************************)
(* Model of the SRE agent's investigation orchestration                    *)
(* (src/sre-agent): the parent LangGraph workflow                          *)
(*   triage_agent -> planner_agent -> schedule_rca_tasks -> rca_router     *)
(*     -> rca_agent workers -> supervisor_agent -> supervisor_router,      *)
(* the reducer merge_rca_analyses of the rca_analyses_list channel, and    *)
(* the worker sub-graph rca-agent -> tools -> summarise | format-output.   *)
(*                                                                         *)
(* Abstractions.  A task is [priority, status, goal]; goal stands for the  *)
(* fields a scheduler never touches (investigation_goal, target_resource,  *)
(* resource_type, suggested_tools).  An analysis is [priority, goal,       *)
(* diagnosis, insights, steps]; priority is the value of                   *)
(* analysis["task"].get("priority"), NoneP when the key is absent.         *)
(* tasks_to_be_executed is the set of the list's elements (both readers    *)
(* turn the list into a set, the router only tests its length).            *)
(* The reasoning oracle (LLM) is a nondeterministic choice.                *)
(***************************************************************************)
EXTENDS Integers, Sequences, FiniteSets, TLC

(* ---------------------------- constants -------------------------------- *)

\* config/settings.py: RCA_TASKS_PER_ITERATION, MAX_TOOL_CALLS (defaults)
RCA_TASKS_PER_ITERATION == 3
MAX_TOOL_CALLS == 8
\* launch_experiment.py: config["recursion_limit"]
RECURSION_LIMIT == 100

\* analysis["task"].get("priority") when the key is missing (Python None)
NoneP == 0

(* ------------------------------ bounds --------------------------------- *)

\* longest task list the planner oracle emits
MaxTasks == 5
\* longest task list with a duplicated priority or a non-pending status
MaxOddTasks == 2
\* most priorities a single supervisor decision requests
MaxRequest == 2
\* events kept in the recorded history
MaxTrace == 6

Statuses == {"pending", "in_progress", "completed"}

\* diagnoses a worker submits in an orchestrator run
OrchDiagnoses == {"a"}

(* ------------------------- sequence helpers ---------------------------- *)

\* seq[:n]
Prefix(seq, n) == SubSeq(seq, 1, IF Len(seq) < n THEN Len(seq) ELSE n)

SetMin(S) == CHOOSE m \in S : \A x \in S : m <= x

\* sorted(S, reverse=True)
RECURSIVE Sorted_descending(_)
Sorted_descending(S) ==
    IF S = {} THEN << >>
    ELSE Sorted_descending(S \ {SetMin(S)}) \o << SetMin(S) >>

\* sorted(S) for a finite set of integers
RECURSIVE Sorted(_)
Sorted(S) == IF S = {} THEN << >>
             ELSE << SetMin(S) >> \o Sorted(S \ {SetMin(S)})

Priorities(seq) == {seq[i].priority : i \in DOMAIN seq}

(* --------------------- models/reducers.py ------------------------------ *)

\* the loop with priority_map.setdefault(priority, analysis): the first
\* analysis of a priority is kept
RECURSIVE BuildPriorityMap_keep_first(_, _)
BuildPriorityMap_keep_first(all, pm) ==
    IF all = << >> THEN pm
    ELSE LET analysis == Head(all)
             priority == analysis.priority
         IN  BuildPriorityMap_keep_first(Tail(all),
                 IF priority # NoneP
                 THEN pm @@ (priority :> analysis)
                 ELSE pm)

\* the loop of merge_rca_analyses: priority_map[priority] = analysis for
\* every analysis of the list whose task carries a priority
RECURSIVE BuildPriorityMap(_, _)
BuildPriorityMap(all, pm) ==
    IF all = << >> THEN pm
    ELSE LET analysis == Head(all)
             priority == analysis.priority
         IN  BuildPriorityMap(Tail(all),
                 IF priority # NoneP
                 THEN (priority :> analysis) @@ pm
                 ELSE pm)

\* the reducer operator.add: the lists are concatenated
merge_rca_analyses_concat(left, right) == left \o right

\* the last analysis of every priority, in the order of the list
RECURSIVE KeepLastOfPriority(_)
KeepLastOfPriority(all) ==
    IF all = << >> THEN << >>
    ELSE (IF \/ Head(all).priority = NoneP
             \/ \E k \in DOMAIN Tail(all) : Tail(all)[k].priority = Head(all).priority
          THEN << >> ELSE << Head(all) >>)
         \o KeepLastOfPriority(Tail(all))

\* the reducer without its final sort
merge_rca_analyses_unsorted(left, right) == KeepLastOfPriority(left \o right)

\* merge_rca_analyses(left, right)
merge_rca_analyses(left, right) ==
    LET priority_map == BuildPriorityMap(left \o right, << >>)
        keys == Sorted(DOMAIN priority_map)
    IN  [k \in DOMAIN keys |-> priority_map[keys[k]]]

(* --------------------- agents/rca_agent.py ----------------------------- *)

\* format_response: the analysis a worker returns for its task.  The task
\* dictionary it stores has investigation_goal, target_resource,
\* resource_type and suggested_tools, and no "priority" key.
format_response(task, rca_output, insights, prev_steps) ==
    [priority  |-> NoneP,
     goal      |-> task.goal,
     diagnosis |-> rca_output,
     insights  |-> insights,
     steps     |-> prev_steps]

(* --------------------------- graph.py ---------------------------------- *)

\* priorities that already have an analysis (graph.py 41-51)
completed_priorities(analyses) == Priorities(analyses) \ {NoneP}

\* normalised_tasks (graph.py 53-61)
normalised_tasks(tasks, analyses) ==
    [i \in DOMAIN tasks |->
        IF tasks[i].priority \in completed_priorities(analyses)
           /\ tasks[i].status # "completed"
        THEN [tasks[i] EXCEPT !.status = "completed"]
        ELSE tasks[i]]

\* selected_tasks of update_rca_task_status (graph.py 63-77)
scheduler_selected(tasks, requested, analyses) ==
    LET norm == normalised_tasks(tasks, analyses)
    IN  IF requested # {}
        THEN SelectSeq(norm, LAMBDA t : t.priority \in requested
                                        /\ t.status # "completed")
        ELSE Prefix(SelectSeq(norm, LAMBDA t : t.status = "pending"),
                    RCA_TASKS_PER_ITERATION)

\* the status loop without its branch that turns an unselected
\* in_progress task back to pending
update_rca_task_status_no_revert(tasks, requested, analyses) ==
    LET norm == normalised_tasks(tasks, analyses)
        selected_priorities ==
            Priorities(scheduler_selected(tasks, requested, analyses))
    IN  IF tasks = << >> THEN tasks
        ELSE [i \in DOMAIN norm |->
                IF norm[i].priority \in selected_priorities
                   /\ norm[i].status # "in_progress"
                THEN [norm[i] EXCEPT !.status = "in_progress"]
                ELSE norm[i]]

\* a scheduler that returns the selected tasks only, marked in_progress
update_rca_task_status_selected_only(tasks, requested, analyses) ==
    LET selected_tasks == scheduler_selected(tasks, requested, analyses)
    IN  [i \in DOMAIN selected_tasks |->
            [selected_tasks[i] EXCEPT !.status = "in_progress"]]

\* update_rca_task_status: the rca_tasks it returns (the state is left
\* as it is when rca_tasks is empty)
update_rca_task_status(tasks, requested, analyses) ==
    LET norm == normalised_tasks(tasks, analyses)
        selected_priorities ==
            Priorities(scheduler_selected(tasks, requested, analyses))
        cp == completed_priorities(analyses)
    IN  IF tasks = << >> THEN tasks
        ELSE [i \in DOMAIN norm |->
                IF norm[i].priority \in selected_priorities
                   /\ norm[i].status # "in_progress"
                THEN [norm[i] EXCEPT !.status = "in_progress"]
                ELSE IF norm[i].priority \in cp
                        /\ norm[i].status # "completed"
                THEN [norm[i] EXCEPT !.status = "completed"]
                ELSE IF norm[i].priority \notin selected_priorities
                        /\ norm[i].status = "in_progress"
                THEN [norm[i] EXCEPT !.status = "pending"]
                ELSE norm[i]]

\* a router without the test of graph.py 146: with nothing selected and
\* nothing pending it sends every task to a worker
rca_router_no_work_test(tasks, requested) ==
    LET selected_tasks ==
            IF requested # {}
            THEN SelectSeq(tasks, LAMBDA t : t.priority \in requested
                                             /\ t.status # "completed")
            ELSE SelectSeq(tasks, LAMBDA t : t.status = "in_progress")
        pending_tasks == SelectSeq(tasks, LAMBDA t : t.status = "pending")
    IN  IF tasks = << >> THEN << >>
        ELSE IF selected_tasks = << >> /\ pending_tasks = << >> THEN tasks
        ELSE IF selected_tasks = << >>
             THEN Prefix(pending_tasks, RCA_TASKS_PER_ITERATION)
        ELSE selected_tasks

\* rca_router: the tasks it sends to rca_agent workers; << >> when it
\* sends the state to supervisor_agent instead (graph.py 116-192)
rca_router(tasks, requested) ==
    LET selected_tasks ==
            IF requested # {}
            THEN SelectSeq(tasks, LAMBDA t : t.priority \in requested
                                             /\ t.status # "completed")
            ELSE SelectSeq(tasks, LAMBDA t : t.status = "in_progress")
        pending_tasks == SelectSeq(tasks, LAMBDA t : t.status = "pending")
    IN  IF tasks = << >> THEN << >>
        ELSE IF selected_tasks = << >> /\ pending_tasks = << >> THEN << >>
        ELSE IF selected_tasks = << >>
             THEN Prefix(pending_tasks, RCA_TASKS_PER_ITERATION)
        ELSE selected_tasks

\* the rca_analyses_list rca_router hands to the supervisor when it
\* dispatches no worker (graph.py 122-129, 149-156, 165-172)
router_supervisor_analyses(tasks, analyses) ==
    IF tasks = << >> THEN << >> ELSE analyses

\* a router that sends every review back to the scheduler
supervisor_router_loop(requested) == "schedule_rca_tasks"

\* supervisor_router (graph.py 195-213)
supervisor_router(requested) ==
    IF Cardinality(requested) > 0 THEN "schedule_rca_tasks" ELSE "END"

(* ------------------- agents/supervisor_agent.py ------------------------ *)

\* final_report values: {} and the three reports supervisor_agent builds
NoReport == "empty"
Reports == {"no_data", "report", "inconclusive"}

\* supervisor_agent returning the decision as the oracle gave it: the
\* report branch keeps the requested priorities
supervisor_agent_keep_tasks(has_symptoms, analyses, requested, decision) ==
    IF analyses = << >> /\ ~has_symptoms
    THEN [final_report |-> "no_data", tasks_to_be_executed |-> requested]
    ELSE IF decision.report
    THEN [final_report |-> "report", tasks_to_be_executed |-> decision.tasks]
    ELSE IF decision.tasks # {}
    THEN [final_report |-> NoReport, tasks_to_be_executed |-> decision.tasks]
    ELSE [final_report |-> "inconclusive", tasks_to_be_executed |-> {}]

\* supervisor_agent whose report branches return the report alone, as
\* the early return does: tasks_to_be_executed keeps the earlier request
supervisor_agent_stale_request(has_symptoms, analyses, requested, decision) ==
    IF analyses = << >> /\ ~has_symptoms
    THEN [final_report |-> "no_data", tasks_to_be_executed |-> requested]
    ELSE IF decision.report
    THEN [final_report |-> "report", tasks_to_be_executed |-> requested]
    ELSE IF decision.tasks # {}
    THEN [final_report |-> NoReport, tasks_to_be_executed |-> decision.tasks]
    ELSE [final_report |-> "inconclusive", tasks_to_be_executed |-> requested]

\* supervisor_agent: the update it returns, as [final_report,
\* tasks_to_be_executed]; decision is the oracle's SupervisorDecision
\* [report : BOOLEAN, tasks : set of priorities]
supervisor_agent(has_symptoms, analyses, requested, decision) ==
    IF analyses = << >> /\ ~has_symptoms
    THEN [final_report |-> "no_data", tasks_to_be_executed |-> requested]
    ELSE IF decision.report
    THEN [final_report |-> "report", tasks_to_be_executed |-> {}]
    ELSE IF decision.tasks # {}
    THEN [final_report |-> NoReport, tasks_to_be_executed |-> decision.tasks]
    ELSE [final_report |-> "inconclusive", tasks_to_be_executed |-> {}]

(* ------------------- agents/planner_agent.py --------------------------- *)

\* insert task t into a list sorted by priority, after the tasks of equal
\* priority (Python's sorted is stable)
RECURSIVE InsertByPriority(_, _)
InsertByPriority(t, seq) ==
    IF seq = << >> THEN << t >>
    ELSE IF t.priority < Head(seq).priority THEN << t >> \o seq
    ELSE << Head(seq) >> \o InsertByPriority(t, Tail(seq))

RECURSIVE SortByPriority(_)
SortByPriority(seq) ==
    IF seq = << >> THEN << >>
    ELSE InsertByPriority(seq[Len(seq)], SortByPriority(SubSeq(seq, 1, Len(seq) - 1)))

\* planner_agent: sorted(task_list.rca_tasks, key=priority)
planner_agent(task_list) == SortByPriority(task_list)

\* Task lists the planner oracle returns: priorities 1..n all pending
\* (the planner prompt's intent), and short lists with any priorities in
\* any order and any status (what the RCATaskList schema admits).
RegularTaskLists ==
    {[i \in 1..n |-> [priority |-> i, status |-> "pending", goal |-> i]] :
        n \in 0..MaxTasks}

\* priorities of the tasks of the short lists
OddPriorities == {1, 2}

OddTaskLists ==
    UNION {
      {[i \in 1..n |-> [priority |-> ps[i], status |-> ss[i], goal |-> i]] :
          ps \in [1..n -> OddPriorities], ss \in [1..n -> Statuses]} :
      n \in 1..MaxOddTasks}

OracleTaskLists == RegularTaskLists \cup OddTaskLists

\* Decisions the supervisor oracle returns
\* priorities a decision requests: of tasks of the plan and, for the
\* shorter plans, of no task
RequestPriorities == 1..(MaxRequest + 2)

RequestSets ==
    {S \in SUBSET RequestPriorities : Cardinality(S) <= MaxRequest}

\* a request for more tasks than one iteration's width
WideRequest == 1..(RCA_TASKS_PER_ITERATION + 1)

OracleDecisions ==
    {[report |-> FALSE, tasks |-> S] : S \in RequestSets \cup {WideRequest}}
    \cup {[report |-> TRUE, tasks |-> {}], [report |-> TRUE, tasks |-> {1}]}

(* ------------------------------ state ---------------------------------- *)

VARIABLES
    pc,                    \* node of the parent graph to run next
    step,                  \* supersteps of the parent graph run so far
    symptoms,              \* TRUE iff the triage agent found symptoms
    rca_tasks,             \* SreParentState.rca_tasks
    rca_analyses_list,     \* SreParentState.rca_analyses_list
    tasks_to_be_executed,  \* SreParentState.tasks_to_be_executed
    final_report,          \* SreParentState.final_report
    workers,               \* rca_agent workers of the current superstep
    trace,                 \* history: the first events of the run
    tracing,               \* TRUE iff the history is recorded
    \* RcaAgentState of one worker sub-graph
    w_node,                \* node of the worker graph to run next
    w_step,                \* supersteps of the worker graph run so far
    messages,              \* RcaAgentState.messages (kinds of the messages)
    insights,              \* RcaAgentState.insights
    prev_steps,            \* RcaAgentState.prev_steps
    rca_output,            \* RcaAgentState.rca_output
    rca_task,              \* RcaAgentState.rca_task
    w_rca_analyses_list,   \* RcaAgentState.rca_analyses_list
    \* writes to rca_analyses_list waiting for the reducer, and the
    \* operands of the reducer call just made
    m_pending,
    m_left,
    m_right

orchVars == << pc, step, symptoms, rca_tasks, rca_analyses_list,
               tasks_to_be_executed, final_report, workers, trace, tracing >>

workerVars == << w_node, w_step, messages, insights, prev_steps, rca_output,
                 rca_task, w_rca_analyses_list >>

mergeVars == << m_pending, m_left, m_right >>

vars == << orchVars, workerVars, mergeVars >>

\* rca_output before submit_final_diagnosis has set it
NoOutput == "unset"

\* the worker state rca_router builds for a task (graph.py 179-187)
rca_input_state(task) ==
    [w_node |-> "rca-agent", w_step |-> 0, messages |-> << >>,
     insights |-> << >>, prev_steps |-> << >>, rca_output |-> NoOutput,
     rca_task |-> task, w_rca_analyses_list |-> << >>]

NoTask == [priority |-> 1, status |-> "in_progress", goal |-> 1]

\* no worker graph is being followed
WorkerIdle ==
    /\ w_node = "idle" /\ w_step = 0 /\ messages = << >> /\ insights = << >>
    /\ prev_steps = << >> /\ rca_output = NoOutput /\ rca_task = NoTask
    /\ w_rca_analyses_list = << >>

\* history events: the priorities the router dispatched and those left
\* pending ("dispatch"), the priorities whose workers returned an analysis
\* ("fanin"), the priorities and report flag of a supervisor update
\* ("review")
Event(kind, prios, pending, report) ==
    [kind |-> kind, prios |-> prios, pending |-> pending, report |-> report]

Record(ev) ==
    /\ trace' = IF tracing /\ Len(trace) < MaxTrace
                THEN Append(trace, ev) ELSE trace
    /\ UNCHANGED tracing

MergeIdle == m_pending = << >> /\ m_left = << >> /\ m_right = << >>

\* initial_state of run_sre_agent (launch_experiment.py 54-70)
Init ==
    /\ pc = "triage_agent"
    /\ step = 0
    /\ symptoms = FALSE
    /\ rca_tasks = << >>
    /\ rca_analyses_list = << >>
    /\ tasks_to_be_executed = {}
    /\ final_report = NoReport
    /\ workers = << >>
    /\ trace = << >> /\ tracing = FALSE
    /\ WorkerIdle
    /\ MergeIdle

\* a superstep may start while the recursion limit is not reached
CanStep == step < RECURSION_LIMIT

\* triage_agent node: the symptoms the triage oracle extracts
TriageAgent ==
    /\ pc = "triage_agent" /\ CanStep
    /\ symptoms' \in BOOLEAN
    /\ pc' = "planner_agent"
    /\ step' = step + 1
    /\ UNCHANGED << rca_tasks, rca_analyses_list, tasks_to_be_executed,
                    final_report, workers >>
    /\ UNCHANGED << trace, tracing >>
    /\ UNCHANGED << workerVars, mergeVars >>

\* planner_agent node
PlannerAgent ==
    /\ pc = "planner_agent" /\ CanStep
    /\ \E task_list \in OracleTaskLists :
           rca_tasks' = planner_agent(task_list)
    /\ pc' = "schedule_rca_tasks"
    /\ step' = step + 1
    /\ UNCHANGED << symptoms, rca_analyses_list, tasks_to_be_executed,
                    final_report, workers >>
    /\ UNCHANGED << trace, tracing >>
    /\ UNCHANGED << workerVars, mergeVars >>

\* schedule_rca_tasks node followed by its conditional edge rca_router
ScheduleRcaTasks ==
    /\ pc = "schedule_rca_tasks" /\ CanStep
    /\ rca_tasks' = update_rca_task_status(rca_tasks, tasks_to_be_executed,
                                           rca_analyses_list)
    /\ LET sends == rca_router(rca_tasks', tasks_to_be_executed)
       IN  /\ workers' = [i \in DOMAIN sends |->
                             [task |-> sends[i], st |-> "running", out |-> << >>]]
           /\ pc' = IF sends = << >> THEN "supervisor_agent" ELSE "rca_agent"
    /\ step' = step + 1
    /\ UNCHANGED << symptoms, rca_analyses_list, tasks_to_be_executed,
                    final_report >>
    /\ Record(Event("dispatch", {workers'[i].task.priority : i \in DOMAIN workers'},
                    Priorities(SelectSeq(rca_tasks', LAMBDA t : t.status = "pending")),
                    FALSE))
    /\ UNCHANGED << workerVars, mergeVars >>

\* one rca_agent worker runs to its end: it returns the analysis of
\* format_response when the oracle submitted a diagnosis, and the empty
\* rca_analyses_list of its input when the oracle answered without a tool
\* call
RcaAgentDone(i) ==
    /\ pc = "rca_agent" /\ CanStep
    /\ workers[i].st = "running"
    /\ \/ \E d \in OrchDiagnoses :
            workers' = [workers EXCEPT ![i].st = "done",
                          ![i].out = << format_response(workers[i].task, d, << >>, << >>) >>]
       \/ workers' = [workers EXCEPT ![i].st = "done"]
    /\ UNCHANGED << pc, step, symptoms, rca_tasks, rca_analyses_list,
                    tasks_to_be_executed, final_report >>
    /\ UNCHANGED << trace, tracing >>
    /\ UNCHANGED << workerVars, mergeVars >>

\* one rca_agent worker raises: its oracle never submits and its
\* sub-graph runs into the recursion limit, or an oracle call raises; the
\* error leaves parent_graph.ainvoke
RcaAgentRaise(i) ==
    /\ pc = "rca_agent" /\ CanStep
    /\ workers[i].st = "running"
    /\ pc' = "error"
    /\ UNCHANGED << step, symptoms, rca_tasks, rca_analyses_list,
                    tasks_to_be_executed, final_report, workers >>
    /\ UNCHANGED << trace, tracing >>
    /\ UNCHANGED << workerVars, mergeVars >>

\* the writes of the workers of a superstep, applied one reducer call per
\* worker
RECURSIVE ApplyWrites(_, _)
ApplyWrites(list, ws) ==
    IF ws = << >> THEN list
    ELSE ApplyWrites(merge_rca_analyses(list, Head(ws).out), Tail(ws))

\* an edge to the supervisor that fires as soon as one worker has
\* finished, without waiting for the workers of the superstep
FanIn_first_done ==
    /\ pc = "rca_agent" /\ CanStep
    /\ \E i \in DOMAIN workers : workers[i].st = "done"
    /\ rca_analyses_list' = ApplyWrites(rca_analyses_list, workers)
    /\ workers' = << >>
    /\ pc' = "supervisor_agent"
    /\ step' = step + 1
    /\ UNCHANGED << symptoms, rca_tasks, tasks_to_be_executed, final_report >>
    /\ Record(Event("fanin",
                    {workers[i].task.priority : i \in {j \in DOMAIN workers : workers[j].out # << >>}},
                    {}, FALSE))
    /\ UNCHANGED << workerVars, mergeVars >>

\* end of the rca_agent superstep: every worker has finished, their
\* writes are reduced into rca_analyses_list, the edge leads to the
\* supervisor
FanIn ==
    /\ pc = "rca_agent" /\ CanStep
    /\ \A i \in DOMAIN workers : workers[i].st = "done"
    /\ rca_analyses_list' = ApplyWrites(rca_analyses_list, workers)
    /\ workers' = << >>
    /\ pc' = "supervisor_agent"
    /\ step' = step + 1
    /\ UNCHANGED << symptoms, rca_tasks, tasks_to_be_executed, final_report >>
    /\ Record(Event("fanin",
                    {workers[i].task.priority : i \in {j \in DOMAIN workers : workers[j].out # << >>}},
                    {}, FALSE))
    /\ UNCHANGED << workerVars, mergeVars >>

\* supervisor_agent node followed by its conditional edge
\* supervisor_router
SupervisorAgent ==
    /\ pc = "supervisor_agent" /\ CanStep
    /\ \E decision \in OracleDecisions :
         LET out == supervisor_agent(symptoms,
                        router_supervisor_analyses(rca_tasks, rca_analyses_list),
                        tasks_to_be_executed, decision)
         IN  /\ final_report' = out.final_report
             /\ tasks_to_be_executed' = out.tasks_to_be_executed
             /\ pc' = supervisor_router(out.tasks_to_be_executed)
    /\ step' = step + 1
    /\ UNCHANGED << symptoms, rca_tasks, rca_analyses_list, workers >>
    /\ Record(Event("review", tasks_to_be_executed', {}, final_report' # NoReport))
    /\ UNCHANGED << workerVars, mergeVars >>

\* GraphRecursionError: the graph has not reached END after
\* recursion_limit supersteps
GraphRecursionError ==
    /\ pc \notin {"END", "error"}
    /\ ~CanStep
    /\ pc' = "error"
    /\ UNCHANGED << step, symptoms, rca_tasks, rca_analyses_list,
                    tasks_to_be_executed, final_report, workers >>
    /\ UNCHANGED << trace, tracing >>
    /\ UNCHANGED << workerVars, mergeVars >>

Next ==
    \/ TriageAgent
    \/ PlannerAgent
    \/ ScheduleRcaTasks
    \/ \E i \in DOMAIN workers : RcaAgentDone(i)
    \/ \E i \in DOMAIN workers : RcaAgentRaise(i)
    \/ FanIn
    \/ SupervisorAgent
    \/ GraphRecursionError

Spec == Init /\ [][Next]_vars

(* ------------------ the worker graph (rca_agent.py) -------------------- *)

\* Kinds of message: an AIMessage with one tool call to an investigation
\* tool, one with a call to submit_final_diagnosis, one without a tool
\* call, and a ToolMessage.  The model is bound with
\* parallel_tool_calls=False: an AIMessage carries at most one tool call.
AiKinds == {"ai_tool", "ai_submit", "ai_text"}

\* diagnoses the worker oracle submits
Diagnoses == {"", "x"}

\* tasks a followed worker is started for
WorkerTasks ==
    {[priority |-> p, status |-> "in_progress", goal |-> g] :
        p \in 1..MaxTasks, g \in 1..MaxTasks}

\* utils/helpers.py: count_non_submission_tool_calls
RECURSIVE count_non_submission_tool_calls(_)
count_non_submission_tool_calls(msgs) ==
    IF msgs = << >> THEN 0
    ELSE (IF Head(msgs) = "ai_tool" THEN 1 ELSE 0)
         + count_non_submission_tool_calls(Tail(msgs))

\* the budget zone rcaAgent puts in its prompt (rca_agent.py 77-89)
budget_status(tool_call_count) ==
    IF tool_call_count >= MAX_TOOL_CALLS THEN "exceeded"
    ELSE IF tool_call_count >= MAX_TOOL_CALLS - 2 THEN "warning"
    ELSE "normal"

\* langgraph.prebuilt.tools_condition on the last message
tools_condition(msgs) ==
    IF msgs[Len(msgs)] \in {"ai_tool", "ai_submit"} THEN "tools" ELSE "END"

\* after_tools_condition
after_tools_condition(output) ==
    IF output # NoOutput THEN "format-output" ELSE "summarise"

WorkerCanStep == w_step < RECURSION_LIMIT

\* a worker graph starts on the state rca_router built for its task
WorkerInit ==
    /\ pc = "rca_agent" /\ step = 0 /\ symptoms = FALSE
    /\ rca_tasks = << >> /\ rca_analyses_list = << >>
    /\ tasks_to_be_executed = {} /\ final_report = NoReport
    /\ workers = << >>
    /\ trace = << >> /\ tracing = FALSE
    /\ \E task \in WorkerTasks :
         LET st == rca_input_state(task)
         IN  /\ w_node = st.w_node /\ w_step = st.w_step
             /\ messages = st.messages /\ insights = st.insights
             /\ prev_steps = st.prev_steps /\ rca_output = st.rca_output
             /\ rca_task = st.rca_task
             /\ w_rca_analyses_list = st.w_rca_analyses_list
    /\ MergeIdle

\* node rca-agent (rcaAgent) and its conditional edge tools_condition:
\* the oracle sees the budget status in its prompt and answers with any
\* kind of message
RcaAgentNode ==
    /\ w_node = "rca-agent" /\ WorkerCanStep
    /\ \E kind \in AiKinds :
         /\ messages' = Append(messages, kind)
         /\ w_node' = tools_condition(messages')
    /\ w_step' = w_step + 1
    /\ UNCHANGED << insights, prev_steps, rca_output, rca_task,
                    w_rca_analyses_list >>
    /\ UNCHANGED << orchVars, mergeVars >>

\* node tools (ToolNode): runs the tool call of the last AIMessage;
\* submit_final_diagnosis sets rca_output and goes to format-output, any
\* other tool appends its ToolMessage; then after_tools_condition
ToolsNode ==
    /\ w_node = "tools" /\ WorkerCanStep
    /\ messages' = Append(messages, "tool")
    /\ IF messages[Len(messages)] = "ai_submit"
       THEN \E d \in Diagnoses : rca_output' = d
       ELSE rca_output' = rca_output
    /\ w_node' = after_tools_condition(rca_output')
    /\ w_step' = w_step + 1
    /\ UNCHANGED << insights, prev_steps, rca_task, w_rca_analyses_list >>
    /\ UNCHANGED << orchVars, mergeVars >>

\* node summarise: returns {"insights": [data.insight], "prev_steps":
\* [data.prev_step]}; the two channels have no reducer, the returned
\* lists replace the stored ones.  The finding and the action of the
\* k-th investigation tool call are written k.
SummariseNode ==
    /\ w_node = "summarise" /\ WorkerCanStep
    /\ insights' = << count_non_submission_tool_calls(messages) >>
    /\ prev_steps' = << count_non_submission_tool_calls(messages) >>
    /\ w_node' = "rca-agent"
    /\ w_step' = w_step + 1
    /\ UNCHANGED << messages, rca_output, rca_task, w_rca_analyses_list >>
    /\ UNCHANGED << orchVars, mergeVars >>

\* node format-output (format_response)
FormatOutputNode ==
    /\ w_node = "format-output" /\ WorkerCanStep
    /\ w_rca_analyses_list' =
           << format_response(rca_task, rca_output, insights, prev_steps) >>
    /\ w_node' = "END"
    /\ w_step' = w_step + 1
    /\ UNCHANGED << messages, insights, prev_steps, rca_output, rca_task >>
    /\ UNCHANGED << orchVars, mergeVars >>

\* GraphRecursionError in the worker graph
WorkerRecursionError ==
    /\ w_node \in {"rca-agent", "tools", "summarise", "format-output"}
    /\ ~WorkerCanStep
    /\ w_node' = "error"
    /\ UNCHANGED << w_step, messages, insights, prev_steps, rca_output,
                    rca_task, w_rca_analyses_list >>
    /\ UNCHANGED << orchVars, mergeVars >>

\* the oracle call of rcaAgent or of summarise raises (the chat client
\* has given up): neither node catches, the exception leaves the node,
\* the worker graph and the caller of the graph
OracleRaises ==
    /\ w_node \in {"rca-agent", "summarise"} /\ WorkerCanStep
    /\ w_node' = "raised"
    /\ UNCHANGED << w_step, messages, insights, prev_steps, rca_output,
                    rca_task, w_rca_analyses_list >>
    /\ UNCHANGED << orchVars, mergeVars >>

WorkerNext ==
    \/ RcaAgentNode
    \/ ToolsNode
    \/ SummariseNode
    \/ FormatOutputNode
    \/ OracleRaises
    \/ WorkerRecursionError

WorkerSpec == WorkerInit /\ [][WorkerNext]_vars

(* ------------- recorded runs after a regular planner output ------------ *)

\* the state after the planner returned tasks 1..n, all pending, for an
\* incident with symptoms; the history is recorded
ScenarioInit ==
    /\ pc = "schedule_rca_tasks"
    /\ step = 2
    /\ symptoms = TRUE
    /\ \E task_list \in RegularTaskLists : rca_tasks = planner_agent(task_list)
    /\ rca_analyses_list = << >>
    /\ tasks_to_be_executed = {}
    /\ final_report = NoReport
    /\ workers = << >>
    /\ trace = << >> /\ tracing = TRUE
    /\ WorkerIdle
    /\ MergeIdle

\* the run is followed while its history has room
TraceOpen == Len(trace) < MaxTrace

ScenarioNext ==
    \/ TraceOpen /\ ScheduleRcaTasks
    \/ TraceOpen /\ \E i \in DOMAIN workers : RcaAgentDone(i)
    \/ TraceOpen /\ \E i \in DOMAIN workers : RcaAgentRaise(i)
    \/ TraceOpen /\ FanIn
    \/ TraceOpen /\ SupervisorAgent

ScenarioSpec == ScenarioInit /\ [][ScenarioNext]_vars

(* ---------------- the reducer of rca_analyses_list --------------------- *)

\* highest priority of an analysis handed to the reducer
MaxPriority == 3
\* longest batch handed to one reducer call
MaxBatch == 2

\* analyses handed to the reducer: with and without a priority, with an
\* empty and a non-empty diagnosis
AnalysisEntries ==
    {[priority |-> p, goal |-> 1, diagnosis |-> d,
      insights |-> << >>, steps |-> << >>] :
        p \in {NoneP} \cup 1..MaxPriority, d \in Diagnoses}

\* the channel starts empty (initial_state of run_sre_agent)
MergeInit ==
    /\ pc = "collect" /\ step = 0 /\ symptoms = FALSE
    /\ rca_tasks = << >> /\ rca_analyses_list = << >>
    /\ tasks_to_be_executed = {} /\ final_report = NoReport
    /\ workers = << >>
    /\ trace = << >> /\ tracing = FALSE
    /\ WorkerIdle
    /\ MergeIdle

\* a node returns an analysis for rca_analyses_list: the write waits for
\* the reducer
WorkerWrite ==
    /\ pc \in {"collect", "reducer"}
    /\ Len(m_pending) < MaxBatch
    /\ \E analysis \in AnalysisEntries :
         m_pending' = Append(m_pending, analysis)
    /\ m_left' = << >>
    /\ m_right' = << >>
    /\ pc' = "collect"
    /\ UNCHANGED << step, symptoms, rca_tasks, rca_analyses_list,
                    tasks_to_be_executed, final_report, workers, trace,
                    tracing >>
    /\ UNCHANGED workerVars

\* one call of the reducer: rca_analyses_list becomes
\* merge_rca_analyses(rca_analyses_list, batch) for the waiting batch
ReducerCall ==
    /\ pc \in {"collect", "reducer"}
    /\ m_left' = rca_analyses_list
    /\ m_right' = m_pending
    /\ rca_analyses_list' = merge_rca_analyses(rca_analyses_list, m_pending)
    /\ m_pending' = << >>
    /\ pc' = "reducer"
    /\ UNCHANGED << step, symptoms, rca_tasks, tasks_to_be_executed,
                    final_report, workers, trace, tracing >>
    /\ UNCHANGED workerVars

MergeNext ==
    \/ WorkerWrite
    \/ ReducerCall

MergeSpec == MergeInit /\ [][MergeNext]_vars

(* ============================== claims ================================= *)

\* the run has ended: the graph reached END or ainvoke raised
RunEnded == pc \in {"END", "error"}

\* C1: whatever the oracle answers, every run of the orchestrator ends
\* with a non-empty final_report (within the configured number of
\* supervisor round-trips).
C1_RunEndsWithFinalReport == RunEnded => final_report # NoReport

\* status of the task of priority p in rca_tasks
StatusOf(p) == {rca_tasks[i].status : i \in {j \in DOMAIN rca_tasks : rca_tasks[j].priority = p}}

\* the recorded run is the scenario: tasks 1..5, every dispatched worker
\* returned a diagnosis, the first review requested [4], the second one
\* returned a final report
ScenarioRun ==
    /\ tracing /\ pc = "END" /\ Len(trace) = 6
    /\ [i \in DOMAIN rca_tasks |-> rca_tasks[i].priority] = << 1, 2, 3, 4, 5 >>
    /\ trace[1].kind = "dispatch"
    /\ trace[2].kind = "fanin" /\ trace[2].prios = trace[1].prios
    /\ trace[3].kind = "review" /\ trace[3].prios = {4} /\ ~trace[3].report
    /\ trace[4].kind = "dispatch"
    /\ trace[5].kind = "fanin" /\ trace[5].prios = trace[4].prios
    /\ trace[6].kind = "review" /\ trace[6].prios = {} /\ trace[6].report

\* C2: in the scenario (tasks 1..5 pending, 3 tasks per iteration, every
\* worker submits, the supervisor requests [4] and then reports),
\* iteration 1 dispatches {1,2,3} and leaves {4,5} pending, iteration 2
\* dispatches {4}, and the run ends with tasks 1..4 completed, task 5
\* pending and 4 entries in rca_analyses_list.
C2_ScenarioOutcome ==
    ScenarioRun =>
        /\ trace[1].prios = {1, 2, 3} /\ trace[1].pending = {4, 5}
        /\ trace[4].prios = {4}
        /\ \A p \in 1..4 : StatusOf(p) = {"completed"}
        /\ StatusOf(5) = {"pending"}
        /\ Len(rca_analyses_list) = 4

\* C3: no step changes a task whose status is completed to another
\* status.
C3_CompletedIsFinal ==
    [][\A i \in DOMAIN rca_tasks :
          rca_tasks[i].status = "completed"
          => /\ i \in DOMAIN rca_tasks'
             /\ rca_tasks'[i].status = "completed"]_vars

\* C4: a worker never makes more than MAX_TOOL_CALLS tool invocations
\* other than submit_final_diagnosis; at the limit its next action is the
\* submission.
C4_BudgetCeiling ==
    count_non_submission_tool_calls(messages) <= MAX_TOOL_CALLS

\* C5: a worker run that ends returns exactly one analysis, whatever the
\* oracle answered.
C5_ExactlyOneResult == w_node = "END" => Len(w_rca_analyses_list) = 1

\* C6: the analysis a worker returns is keyed by the priority of the task
\* the worker was dispatched for.
C6_ResultKeyedByPriority ==
    \A i \in DOMAIN workers :
        workers[i].out # << >>
        => workers[i].out[1].priority = workers[i].task.priority

\* a reducer call has been made
Reduced == pc = "reducer"

\* the entries of list with priority p
EntriesOf(list, p) == {list[i] : i \in {j \in DOMAIN list : list[j].priority = p}}

\* priorities of a list's entries, in the order of the list
PrioritySeq(list) == [i \in DOMAIN list |-> list[i].priority]

\* C7: merging is idempotent: merging the batch of the last reducer call
\* once more into its result gives the same list.
C7_MergeIdempotent ==
    Reduced => merge_rca_analyses(rca_analyses_list, m_right) = rca_analyses_list

\* a batch of two results was merged into a list that already had an
\* entry, with another diagnosis, for one of its priorities
C7_Witness ==
    /\ Reduced /\ Len(m_right) = 2
    /\ \E i \in DOMAIN m_left, j \in DOMAIN m_right :
          /\ m_left[i].priority = m_right[j].priority
          /\ m_left[i].diagnosis # m_right[j].diagnosis

ArrivalOrders(seq) ==
    {[i \in DOMAIN seq |-> seq[f[i]]] :
        f \in {g \in [DOMAIN seq -> DOMAIN seq] :
                  \A a, b \in DOMAIN seq : a # b => g[a] # g[b]}}

\* merging the batch in any arrival order and in any split into two
\* successive reducer calls gives the list the last reducer call gave
SameForEveryOrder ==
    \A b \in ArrivalOrders(m_right) : \A k \in 0..Len(b) :
        merge_rca_analyses(merge_rca_analyses(m_left, SubSeq(b, 1, k)),
                           SubSeq(b, k + 1, Len(b))) = rca_analyses_list

DistinctPriorities(batch) ==
    \A i, j \in DOMAIN batch :
        (i # j /\ batch[i].priority # NoneP) => batch[i].priority # batch[j].priority

C10_SortedOnePerPriority ==
    Reduced =>
      /\ \A i, j \in DOMAIN rca_analyses_list :
            i < j => rca_analyses_list[i].priority < rca_analyses_list[j].priority
      /\ PrioritySeq(m_left \o m_right) = << 1, 2, 2, 3 >>
            => PrioritySeq(rca_analyses_list) = << 1, 2, 3 >>

\* results with priorities [1,2,2,3] were merged
C10_Witness ==
    /\ Reduced
    /\ PrioritySeq(m_left \o m_right) = << 1, 2, 2, 3 >>

(* ------------------- the scheduler step of a run ----------------------- *)

\* the step of schedule_rca_tasks and rca_router
SchedulerStep ==
    pc = "schedule_rca_tasks" /\ pc' \in {"rca_agent", "supervisor_agent"}

\* the tasks of a list, each named by its investigation goal
Goals(seq) == [i \in DOMAIN seq |-> seq[i].goal]

GoalSet(seq) == {seq[i].goal : i \in DOMAIN seq}

\* the tasks handed to the workers of the current superstep
Dispatched == [i \in DOMAIN workers |-> workers[i].task]

PendingTasks(tasks) == SelectSeq(tasks, LAMBDA t : t.status = "pending")

\* C11: with an empty tasks_to_be_executed the scheduler selects the
\* first min(RCA_TASKS_PER_ITERATION, number of pending tasks) pending
\* tasks, no pending task left out has a lower priority than a selected
\* one, and the selected tasks are the tasks dispatched.
C11_FirstIterationBatch ==
    [][(SchedulerStep /\ tasks_to_be_executed = {}) =>
         LET pending == PendingTasks(rca_tasks)
             n == IF Len(pending) < RCA_TASKS_PER_ITERATION
                  THEN Len(pending) ELSE RCA_TASKS_PER_ITERATION
             batch == scheduler_selected(rca_tasks, {}, rca_analyses_list)
         IN  /\ batch = SubSeq(pending, 1, n)
             /\ \A i \in DOMAIN batch : \A j \in DOMAIN pending :
                   pending[j].goal \notin GoalSet(batch)
                   => batch[i].priority <= pending[j].priority
             /\ Goals(Dispatched') = Goals(batch)]_vars

\* the tasks a request names that are not completed
RequestedOpen(tasks, requested, analyses) ==
    SelectSeq(normalised_tasks(tasks, analyses),
              LAMBDA t : t.priority \in requested /\ t.status # "completed")

\* C12: with a non-empty tasks_to_be_executed the tasks dispatched are
\* exactly the tasks whose priority is requested and whose status is not
\* completed; a requested priority that is unknown or completed adds no
\* task that was not requested.
C12_RequestedBatch ==
    [][(SchedulerStep /\ tasks_to_be_executed # {}) =>
         Goals(Dispatched') =
            Goals(RequestedOpen(rca_tasks, tasks_to_be_executed,
                                rca_analyses_list))]_vars

C14_SchedulerIdempotent ==
    [][SchedulerStep =>
         /\ update_rca_task_status(rca_tasks', tasks_to_be_executed,
                                   rca_analyses_list) = rca_tasks'
         /\ Goals(scheduler_selected(rca_tasks', tasks_to_be_executed,
                                     rca_analyses_list))
              = Goals(scheduler_selected(rca_tasks, tasks_to_be_executed,
                                         rca_analyses_list))]_vars

\* C15: in every reachable state every task with status completed has
\* an entry with its priority in rca_analyses_list.
C15_CompletedHasResult ==
    \A i \in DOMAIN rca_tasks :
        rca_tasks[i].status = "completed"
        => rca_tasks[i].priority \in Priorities(rca_analyses_list)

\* C16: in every reachable state each priority in tasks_to_be_executed
\* is the priority of a task of rca_tasks whose status is not completed,
\* whatever the supervisor oracle returned.
C16_RequestedAreOpenTasks ==
    \A p \in tasks_to_be_executed :
        \E i \in DOMAIN rca_tasks :
            rca_tasks[i].priority = p /\ rca_tasks[i].status # "completed"

(* ------------------- the supervisor step of a run ---------------------- *)

\* the step of supervisor_agent and supervisor_router
SupervisorStep ==
    pc = "supervisor_agent" /\ pc' \in {"END", "schedule_rca_tasks"}

\* C17: after every supervisor step exactly one of final_report and
\* tasks_to_be_executed is non-empty, also when the oracle's decision
\* holds both or neither.
C17_ReportXorRequest ==
    [][SupervisorStep =>
         (final_report' # NoReport) # (tasks_to_be_executed' # {})]_vars

\* a supervisor step has followed a review that requested tasks, and
\* stored a final report
C17_Witness ==
    /\ pc = "END" /\ step >= 8
    /\ final_report = "report" /\ tasks_to_be_executed = {}

\* SupervisorDecision(tasks_to_be_executed=[], final_report=None)
NoDecision == [report |-> FALSE, tasks |-> {}]

\* the supervisor node gets past its early return and calls the oracle
OracleConsulted ==
    router_supervisor_analyses(rca_tasks, rca_analyses_list) # << >>
    \/ symptoms

\* C18: when the oracle's decision has neither a final report nor a
\* requested priority, the supervisor step stores the report marked
\* inconclusive with an empty tasks_to_be_executed, and the routing that
\* follows ends the run.
C18_InconclusiveFallback ==
    [][(pc = "supervisor_agent" /\ OracleConsulted) =>
         LET out == supervisor_agent(symptoms,
                        router_supervisor_analyses(rca_tasks, rca_analyses_list),
                        tasks_to_be_executed, NoDecision)
         IN  /\ out.final_report = "inconclusive"
             /\ out.tasks_to_be_executed = {}
             /\ supervisor_router(out.tasks_to_be_executed) = "END"
             /\ (SupervisorStep /\ final_report' = "inconclusive")
                => (tasks_to_be_executed' = {} /\ pc' = "END")]_vars

\* after a review that requested tasks, a review without a decision has
\* ended the run with the inconclusive report
C18_Witness ==
    /\ pc = "END" /\ step >= 8
    /\ final_report = "inconclusive" /\ tasks_to_be_executed = {}

\* a request is stored and rca_tasks has no task that is not completed:
\* every requested priority is unknown or completed and no task is
\* pending, before and after the scheduler step
NothingLeftToRun ==
    /\ tasks_to_be_executed # {}
    /\ \A i \in DOMAIN rca_tasks : rca_tasks[i].status = "completed"

\* C19: when every requested priority is unknown or completed and no
\* task is pending, the review the router hands the run to ends it with a
\* final report: it does not open another scheduler round.
C19_ForcedFinalization ==
    [][(SupervisorStep /\ NothingLeftToRun) =>
         (pc' = "END" /\ final_report' # NoReport)]_vars

\* selected_tasks of rca_router before its fallback (graph.py 131-141)
router_selected_tasks(tasks, requested) ==
    IF requested # {}
    THEN SelectSeq(tasks, LAMBDA t : t.priority \in requested
                                     /\ t.status # "completed")
    ELSE SelectSeq(tasks, LAMBDA t : t.status = "in_progress")

\* C20: whenever, after a scheduler step, no task is selected for
\* dispatch and no task is pending, rca_router dispatches no worker and
\* routes to the supervisor, which gets the current rca_tasks and the
\* current rca_analyses_list.
C20_NoWorkRoutesToSupervisor ==
    [][(/\ SchedulerStep
        /\ router_selected_tasks(rca_tasks', tasks_to_be_executed) = << >>
        /\ PendingTasks(rca_tasks') = << >>)
       => /\ workers' = << >>
          /\ pc' = "supervisor_agent"
          /\ router_supervisor_analyses(rca_tasks', rca_analyses_list')
                = rca_analyses_list']_vars

\* the first scheduler step of a run whose tasks are all completed has
\* handed the run to the supervisor without a worker
C20_Witness ==
    /\ pc = "supervisor_agent" /\ step = 3 /\ workers = << >>
    /\ rca_tasks # << >>
    /\ \A i \in DOMAIN rca_tasks : rca_tasks[i].status = "completed"

(* --------------------------- the end of a run -------------------------- *)

\* C21: whenever a run ends, final_report is non-empty and
\* tasks_to_be_executed is empty: no run ends without an answer.
C21_EndsWithAnswer ==
    RunEnded => (final_report # NoReport /\ tasks_to_be_executed = {})

\* C22: final_report becomes non-empty by a supervisor step only, and
\* once it is non-empty no step follows: it is never changed again and
\* no scheduler, worker or supervisor step runs.
C22_ReportStoredOnce ==
    [][/\ final_report' # final_report => (SupervisorStep /\ final_report = NoReport)
       /\ final_report # NoReport => (pc = "END" /\ UNCHANGED vars)]_vars

\* a review has stored a final report for a plan of which tasks are still
\* pending, and the run is at END
C22_Witness ==
    /\ final_report = "report" /\ pc = "END"
    /\ Len(rca_tasks) >= 4
    /\ \E i \in DOMAIN rca_tasks : rca_tasks[i].status = "pending"

(* ----------------------------- worker runs ----------------------------- *)

\* C23: an error raised by the oracle during a worker's loop does not
\* leave the worker: the worker ends with a result that carries an error
\* diagnosis, and the other workers' results are merged and reviewed.
C23_ErrorStaysInWorker == w_node # "raised"

\* C24: every worker run terminates: once the budget of MAX_TOOL_CALLS
\* is reached and the oracle has used one extra turn without submitting,
\* the worker ends with an inconclusive result; it runs no further tool
\* call and does not end by the recursion limit.
C24_StopsAfterExtraTurn ==
    /\ count_non_submission_tool_calls(messages) <= MAX_TOOL_CALLS + 1
    /\ w_node # "error"

(* --------------------------- the iterations ---------------------------- *)

\* a worker is running
Running == \E i \in DOMAIN workers : workers[i].st = "running"

\* C25: the results of an iteration are merged and reviewed only after
\* every worker of the iteration has finished, no worker runs during a
\* review, and workers start only in a scheduler step taken when no
\* worker of an earlier iteration is left: the workers running at one
\* time are those of one iteration.
C25_FanInBarrier ==
    [][/\ (pc = "rca_agent" /\ pc' = "supervisor_agent") => ~Running
       /\ rca_analyses_list' # rca_analyses_list => ~Running
       /\ SupervisorStep => (workers = << >> /\ workers' = << >>)
       /\ (Dispatched' # Dispatched /\ workers' # << >>)
          => (SchedulerStep /\ workers = << >>)]_vars

\* in the second iteration of a run one worker of the batch has finished
\* while another one is still running
C25_Witness ==
    /\ pc = "rca_agent" /\ step >= 6
    /\ \E i, j \in DOMAIN workers :
          workers[i].st = "done" /\ workers[j].st = "running"

\* the findings (and the actions) of the first k investigation tool
\* calls, in chronological order
HistoryOf(k) == [i \in 1..k |-> i]

\* C26: each summarise step adds its finding and its action to the
\* history: after k tool calls the insights and prev_steps shown to the
\* next rca-agent step, and the insights and steps of the analysis the
\* worker returns, have k entries in chronological order.
C26_HistoryGrows ==
    LET k == count_non_submission_tool_calls(messages)
    IN  /\ w_node = "rca-agent"
           => (insights = HistoryOf(k) /\ prev_steps = HistoryOf(k))
        /\ (w_node = "END" /\ w_rca_analyses_list # << >>)
           => /\ w_rca_analyses_list[1].insights = HistoryOf(k)
              /\ w_rca_analyses_list[1].steps = HistoryOf(k)

\* C27: a scheduler step returns the same tasks in the same order, with
\* every field other than status unchanged, and leaves
\* rca_analyses_list, tasks_to_be_executed and final_report unchanged.
C27_SchedulerFrame ==
    [][SchedulerStep =>
         /\ DOMAIN rca_tasks' = DOMAIN rca_tasks
         /\ \A i \in DOMAIN rca_tasks :
               [rca_tasks'[i] EXCEPT !.status = rca_tasks[i].status] = rca_tasks[i]
         /\ UNCHANGED << rca_analyses_list, tasks_to_be_executed,
                         final_report >>]_vars

\* the first scheduler step of a run on a plan of five tasks has changed
\* the status of three of them
C27_Witness ==
    /\ pc = "rca_agent" /\ step = 3
    /\ Goals(rca_tasks) = << 1, 2, 3, 4, 5 >>
    /\ Goals(PendingTasks(rca_tasks)) = << 4, 5 >>

\* C28: every task handed to a worker has status in_progress in
\* rca_tasks at its dispatch, and the dispatched tasks are the tasks the
\* scheduler step has marked in_progress.
C28_DispatchedAreInProgress ==
    (pc = "rca_agent" /\ workers # << >>) =>
        /\ \A i \in DOMAIN workers : workers[i].task.status = "in_progress"
        /\ GoalSet(Dispatched) =
              GoalSet(SelectSeq(rca_tasks, LAMBDA t : t.status = "in_progress"))

\* C29: in every iteration, the iterations driven by a supervisor
\* request included, at most RCA_TASKS_PER_ITERATION workers are
\* dispatched to run concurrently.
C29_IterationWidth == Len(workers) <= RCA_TASKS_PER_ITERATION

\* C30: when the run has reached END no task has status in_progress:
\* every task with a result in rca_analyses_list is completed and every
\* other task is pending.
C30_FinalStatuses ==
    pc = "END" =>
        \A i \in DOMAIN rca_tasks :
            rca_tasks[i].status =
                IF rca_tasks[i].priority \in Priorities(rca_analyses_list)
                THEN "completed" ELSE "pending"

====
